---- MODULE Spec2Model ----
(***************************************************************************)
(* The OIDC login handshake of src/login/oidc.rs: OIDCLogin::login asks    *)
(* the backend for an authorization URL, binds a tiny_http server on       *)
(* 127.0.0.1:port, runs the accept loop in a spawn_blocking task and       *)
(* returns an OIDCCallback {handle, url}; OIDCCallback::callback awaits    *)
(* the task and exchanges the captured state/nonce/code for a token.       *)
(*                                                                         *)
(* Strings are sequences of tokens (<<>> is the empty string); an          *)
(* Option<T> is a sequence of length at most one (<<>> is None).           *)
(***************************************************************************)
EXTENDS Integers, Sequences, FiniteSets, TLC

\* ------------------------------------------------------------------ bounds

\* how many HTTP requests the environment sends to one listener
MaxRequests == 2
\* how many name=value pairs a generated redirect query holds
MaxPairs == 4

\* ------------------------------------------------------------ Option, data

None == <<>>
Some(x) == <<x>>
IsSome(o) == Len(o) = 1
Unwrap(o) == o[1]

\* `let v = x; body(v)`: x is evaluated once and body sees its value
With(x, body(_)) == CHOOSE r \in {body(v) : v \in {x}} : TRUE

\* the handshakes a caller may run (each has its own OIDCLogin value)
Handshakes == {1, 2}

\* the configured port ignored: every handshake on the default port
UnwrapOrPortIgnored(opt) == 8250

\* self.port.unwrap_or(8250)
DefaultPort == 8250
UnwrapOrPort(opt) == IF IsSome(opt) THEN Unwrap(opt) ELSE DefaultPort

\* let ip = "127.0.0.1"; let hostname = "localhost";
Ip == "127.0.0.1"
Hostname == "localhost"

\* url::Url::parse(format!("http://{}:{}", hostname, port))
BaseUrl(port) ==
    [scheme |-> "http", host |-> Hostname, port |-> port, path |-> "/", query |-> None]

\* the listener bound to the default port whatever the configuration says
BindAddressDefaultPort(port) == [ip |-> Ip, port |-> DefaultPort]

\* format!("{}:{}", ip, port): the address Server::http binds
BindAddress(port) == [ip |-> Ip, port |-> port]

\* #[derive(Default)] OIDCCallbackParams: three empty strings
DefaultParams == [code |-> <<>>, nonce |-> <<>>, state |-> <<>>]

\* --------------------------------------------------------------- url crate

\* request targets url::Url::join rejects (an unparsable authority)
MalformedTargets == {"//[::1", "//localhost:99999"}

\* index of the first occurrence of tok in s, 0 when there is none
RECURSIVE IndexFrom(_, _, _)
IndexFrom(s, tok, i) ==
    IF i > Len(s) THEN 0
    ELSE IF s[i] = tok THEN i
    ELSE IndexFrom(s, tok, i + 1)

IndexOf(s, tok) == IndexFrom(s, tok, 1)

\* Url::join(target): None when the target does not parse; otherwise the
\* target's path replaces the base's and the text after the first "?" is the
\* query (a target without "?" has no query)
Join(base, target) ==
    IF target = <<>> THEN Some(base)
    ELSE IF target[1] \in MalformedTargets THEN None
    ELSE With(IndexOf(target, "?"), LAMBDA q :
            Some([base EXCEPT
                    !.path  = IF q = 1 THEN base.path ELSE target[1],
                    !.query = IF q = 0 THEN None
                              ELSE Some(SubSeq(target, q + 1, Len(target)))]))

\* base.join("oidc/callback").unwrap().to_string()
RedirectUrl(port) == Unwrap(Join(BaseUrl(port), <<"/oidc/callback">>))

\* the query taken as written, without decoding
DecodeTokenRaw(tok) == tok

\* form_urlencoded decoding of one token: "+" is a space, %XX is the byte
DecodeToken(tok) ==
    CASE tok = "+"   -> " "
      [] tok = "%26" -> "&"
      [] tok = "%3D" -> "="
      [] OTHER       -> tok

Decode(s) == [i \in 1..Len(s) |-> DecodeToken(s[i])]

\* s split at every sep
RECURSIVE Split(_, _)
Split(s, sep) ==
    With(IndexOf(s, sep), LAMBDA i :
        IF i = 0 THEN <<s>>
        ELSE With(SubSeq(s, i + 1, Len(s)), LAMBDA rest :
                <<SubSeq(s, 1, i - 1)>> \o Split(rest, sep)))

\* one "&"-segment as a decoded (name, value): split at the first "="
ParsePair(seg) ==
    With(IndexOf(seg, "="), LAMBDA e :
        IF e = 0 THEN <<Decode(seg), <<>>>>
        ELSE With(SubSeq(seg, 1, e - 1), LAMBDA name :
             With(SubSeq(seg, e + 1, Len(seg)), LAMBDA value :
                <<Decode(name), Decode(value)>>)))

\* url.query_pairs().into_owned(): the pairs of the query in order, empty
\* segments skipped; no query gives no pairs
QueryPairs(url) ==
    IF ~IsSome(url.query) THEN <<>>
    ELSE With(SelectSeq(Split(Unwrap(url.query), "&"), LAMBDA g : g # <<>>),
              LAMBDA keep : [i \in 1..Len(keep) |-> ParsePair(keep[i])])

\* .collect() into a HashMap: a later pair replaces an earlier one of the
\* same name
LastIndex(pairs, name) ==
    CHOOSE i \in 1..Len(pairs) :
        /\ pairs[i][1] = name
        /\ \A j \in (i + 1)..Len(pairs) : pairs[j][1] # name

Collect(pairs) ==
    [name \in {pairs[i][1] : i \in 1..Len(pairs)} |-> pairs[LastIndex(pairs, name)][2]]

\* query.get(name).cloned()
Get(query, name) == IF name \in DOMAIN query THEN Some(query[name]) ELSE None

\* a missing parameter rendered as text instead of the empty string
OrElseNoneText(opt) == IF IsSome(opt) THEN Unwrap(opt) ELSE <<"None">>

\* .or_else(|| Some("".to_string())).unwrap()
OrElseEmpty(opt) == IF IsSome(opt) THEN Unwrap(opt) ELSE <<>>

\* let query: HashMap<_, _> = url.query_pairs().into_owned().collect(), then
\* result.code, result.nonce and result.state as the loop body assigns them
Capture(url) ==
    With(QueryPairs(url), LAMBDA pairs :
    With(Collect(pairs), LAMBDA query :
        [code  |-> OrElseEmpty(Get(query, <<"code">>)),
         nonce |-> OrElseEmpty(Get(query, <<"nonce">>)),
         state |-> OrElseEmpty(Get(query, <<"state">>))]))

\* ------------------------------------------------------------ environment

\* what a caller may put in OIDCLogin {port, role} and pass as mount
PortChoices == {None, Some(9000)}
RoleChoices == {None, Some("admin")}
Mounts == {"oidc", "okta"}

\* response.auth_url of a successful authorization-URL request
AuthUrl == <<"https://idp.example/authorize">>
\* the ClientError of a failed backend request
BackendError == "APIError"

\* request targets (request.url()) sent to a listener: the redirect of the
\* spec's scenario, a redirect carrying only state, a request for another
\* path without a query, and a target Url::join rejects
SampleTargets ==
    { <<"/oidc/callback", "?", "code", "=", "abc", "&", "state", "=", "xyz",
        "&", "nonce", "=", "123">>,
      <<"/oidc/callback", "?", "state", "=", "xyz">>,
      <<"/favicon.ico">>,
      <<"//[::1">> }

\* the query parameters an authorization server may put in its redirect, as
\* the names and values it means (before encoding)
ParamNames == {<<"code">>, <<"nonce">>, <<"state">>, <<"session_state">>}
ParamValues == {<<"abc">>, <<"x", " ", "=", "&">>}
ParamLists ==
    UNION {[1..n -> ParamNames \X ParamValues] : n \in 0..MaxPairs}

\* a redirect carries a query with some of the parameters, or no query
RedirectChoices == {None} \cup {Some(pairs) : pairs \in ParamLists}

\* application/x-www-form-urlencoded, as the sender writes it
EncodeToken(tok) ==
    CASE tok = " " -> "+"
      [] tok = "&" -> "%26"
      [] tok = "=" -> "%3D"
      [] OTHER     -> tok

Encode(s) == [i \in 1..Len(s) |-> EncodeToken(s[i])]

RECURSIVE Serialize(_)
Serialize(pairs) ==
    IF pairs = <<>> THEN <<>>
    ELSE Encode(pairs[1][1]) \o <<"=">> \o Encode(pairs[1][2])
         \o (IF Len(pairs) = 1 THEN <<>> ELSE <<"&">> \o Serialize(Tail(pairs)))

\* the request target of a redirect carrying these parameters; None is a
\* redirect without any query
RedirectTarget(params) ==
    IF IsSome(params) THEN <<"/oidc/callback", "?">> \o Serialize(Unwrap(params))
    ELSE <<"/oidc/callback">>

\* ------------------------------------------------------------------ state

VARIABLES
    sessions,         \* the handshakes the caller runs
    config,           \* OIDCLogin {port, role} of each handshake
    loginPc,          \* where login is: idle, auth, bind, spawn, return, done, panicked
    loginMount,       \* the mount passed to login
    authCalls,        \* the arguments of auth::oidc::auth, per call
    authResp,         \* what the backend answered (None while pending)
    loginResult,      \* what login returned: None, Ok(OIDCCallback) or Err
    socket,           \* the listening socket: none, bound, closed
    address,          \* the address Server::http was given (None before the bind)
    queue,            \* the server's queue of requests not yet taken by recv
    unblockRequested, \* the queue's unblock flag, set by server.unblock()
    arrived,          \* how many requests the environment has sent
    sentParams,       \* the parameters the authorization server put in its redirect
    task,             \* the spawn_blocking task: none, running, finished, panicked
    taskPc,           \* where the closure is: recv, parse, respond, unblock
    request,          \* the request the loop body is handling
    result,           \* the closure's local `result`
    output,           \* the value the finished task yields to its JoinHandle
    received,         \* the targets the loop has taken from the queue, in order
    responses,        \* the bodies the loop has answered with
    handle,           \* the OIDCCallback: none, held, consumed, dropped
    cbPc,             \* where callback is: idle, await, exchange, done, panicked
    cbMount,          \* the mount passed to callback
    exchangeCalls,    \* the arguments of auth::oidc::callback, per call
    cbResult,         \* what callback returned: None, Ok or Err
    firstPoll         \* what callback's first poll of the handle found: none, pending, ready

vars ==
    <<sessions, config, loginPc, loginMount, authCalls, authResp, loginResult,
      socket, address, queue, unblockRequested, arrived, sentParams, task, taskPc, request, result,
      output, received, responses, handle, cbPc, cbMount, exchangeCalls, cbResult,
      firstPoll>>

loginVars == <<loginPc, loginMount, authCalls, authResp, loginResult>>
serverVars == <<socket, address, queue, unblockRequested>>
envVars == <<arrived, sentParams>>
taskVars == <<task, taskPc, request, result, output, received, responses>>
cbVars == <<cbPc, cbMount, exchangeCalls, cbResult, firstPoll>>

\* everything but sessions and config is fixed before login is called
Idle ==
    /\ loginPc = [h \in Handshakes |-> "idle"]
    /\ loginMount = [h \in Handshakes |-> ""]
    /\ authCalls = [h \in Handshakes |-> <<>>]
    /\ authResp = [h \in Handshakes |-> None]
    /\ loginResult = [h \in Handshakes |-> None]
    /\ socket = [h \in Handshakes |-> "none"]
    /\ address = [h \in Handshakes |-> None]
    /\ queue = [h \in Handshakes |-> <<>>]
    /\ unblockRequested = [h \in Handshakes |-> FALSE]
    /\ arrived = [h \in Handshakes |-> 0]
    /\ sentParams = [h \in Handshakes |-> None]
    /\ task = [h \in Handshakes |-> "none"]
    /\ taskPc = [h \in Handshakes |-> "recv"]
    /\ request = [h \in Handshakes |-> None]
    /\ result = [h \in Handshakes |-> DefaultParams]
    /\ output = [h \in Handshakes |-> None]
    /\ received = [h \in Handshakes |-> <<>>]
    /\ responses = [h \in Handshakes |-> <<>>]
    /\ handle = [h \in Handshakes |-> "none"]
    /\ cbPc = [h \in Handshakes |-> "idle"]
    /\ cbMount = [h \in Handshakes |-> ""]
    /\ exchangeCalls = [h \in Handshakes |-> <<>>]
    /\ cbResult = [h \in Handshakes |-> None]
    /\ firstPoll = [h \in Handshakes |-> "none"]

\* one handshake, any configuration
Init ==
    /\ sessions = {1}
    /\ config \in [Handshakes -> [port : PortChoices, role : RoleChoices]]
    /\ \A h \in Handshakes \ sessions : config[h] = [port |-> None, role |-> None]
    /\ Idle

Port(h) == UnwrapOrPort(config[h].port)

\* ------------------------------------------------------------------ login

\* auth(client, mount, redirect.as_str(), self.role.clone())
AuthArgs(h, mount) ==
    [mount |-> mount, redirect |-> RedirectUrl(Port(h)), role |-> config[h].role]

\* the backend's error not propagated: login goes on to the bind
AuthFailedIgnored(resp) == FALSE

\* the `?` after .await: a failed response returns from login at once
AuthFailed(resp) == ~resp.ok

\* login is called: the redirect URL is built and the backend is asked for
\* the authorization URL
LoginStart(h, mount) ==
    /\ h \in sessions
    /\ loginPc[h] = "idle"
    /\ loginMount' = [loginMount EXCEPT ![h] = mount]
    /\ authCalls' = [authCalls EXCEPT ![h] = Append(@, AuthArgs(h, mount))]
    /\ loginPc' = [loginPc EXCEPT ![h] = "auth"]
    /\ UNCHANGED <<sessions, config, authResp, loginResult, serverVars, envVars,
                   taskVars, handle, cbVars>>

\* the backend answers; on failure login returns Err(error) before the bind
AuthRespond(h, ok) ==
    /\ loginPc[h] = "auth"
    /\ LET resp == [ok |-> ok,
                    auth_url |-> IF ok THEN AuthUrl ELSE <<>>,
                    error |-> IF ok THEN "" ELSE BackendError]
       IN  /\ authResp' = [authResp EXCEPT ![h] = Some(resp)]
           /\ IF AuthFailed(resp)
              THEN /\ loginResult' = [loginResult EXCEPT
                                        ![h] = Some([ok |-> FALSE, error |-> resp.error])]
                   /\ loginPc' = [loginPc EXCEPT ![h] = "done"]
              ELSE /\ loginPc' = [loginPc EXCEPT ![h] = "bind"]
                   /\ UNCHANGED loginResult
    /\ UNCHANGED <<sessions, config, loginMount, authCalls, serverVars, envVars,
                   taskVars, handle, cbVars>>

\* the address is taken when another handshake's socket is bound to it
AddressInUse(h) ==
    \E g \in Handshakes \ {h} :
        socket[g] = "bound" /\ address[g] = Some(BindAddress(Port(h)))

\* Server::http(format!("{}:{}", ip, port)).unwrap(): the bind fails when the
\* address is in use (by this program or by another process) and unwrap then
\* panics; otherwise the socket listens and requests queue from here on
Bind(h, busy) ==
    /\ loginPc[h] = "bind"
    /\ IF busy \/ AddressInUse(h)
       THEN /\ loginPc' = [loginPc EXCEPT ![h] = "panicked"]
            /\ UNCHANGED <<socket, address>>
       ELSE /\ socket' = [socket EXCEPT ![h] = "bound"]
            /\ address' = [address EXCEPT ![h] = Some(BindAddress(Port(h)))]
            /\ loginPc' = [loginPc EXCEPT ![h] = "spawn"]
    /\ UNCHANGED <<sessions, config, loginMount, authCalls, authResp, loginResult,
                   queue, unblockRequested, envVars, taskVars, handle, cbVars>>

\* tokio::task::spawn_blocking(move || { let mut result = default(); ... })
Spawn(h) ==
    /\ loginPc[h] = "spawn"
    /\ task' = [task EXCEPT ![h] = "running"]
    /\ taskPc' = [taskPc EXCEPT ![h] = "recv"]
    /\ result' = [result EXCEPT ![h] = DefaultParams]
    /\ loginPc' = [loginPc EXCEPT ![h] = "return"]
    /\ UNCHANGED <<sessions, config, loginMount, authCalls, authResp, loginResult,
                   serverVars, envVars, request, output, received, responses,
                   handle, cbVars>>

\* login awaiting the listener's task before it returns
ReturnAfterCapture(h) == task[h] \in {"finished", "panicked"}

\* nothing is awaited between the spawn and the Ok(..)
ReturnReady(h) == TRUE

\* Ok(OIDCCallback { handle, url: response.auth_url })
LoginReturn(h) ==
    /\ loginPc[h] = "return"
    /\ ReturnReady(h)
    /\ loginResult' = [loginResult EXCEPT
                         ![h] = Some([ok |-> TRUE, url |-> Unwrap(authResp[h]).auth_url])]
    /\ handle' = [handle EXCEPT ![h] = "held"]
    /\ loginPc' = [loginPc EXCEPT ![h] = "done"]
    /\ UNCHANGED <<sessions, config, loginMount, authCalls, authResp, serverVars,
                   envVars, taskVars, cbVars>>

\* --------------------------------------------------------------- listener

\* a client sends a request to the listening socket; the server's acceptor
\* puts it in the queue
RequestArrive(h, target) ==
    /\ socket[h] = "bound"
    /\ arrived[h] < MaxRequests
    /\ arrived' = [arrived EXCEPT ![h] = @ + 1]
    /\ queue' = [queue EXCEPT ![h] = Append(@, target)]
    /\ UNCHANGED <<sessions, config, loginVars, address, socket, unblockRequested, sentParams,
                   taskVars, handle, cbVars>>

\* the browser follows the authorization server's redirect: the one request
\* of a handshake, carrying the parameters the server chose
RedirectArrive(h) ==
    /\ socket[h] = "bound"
    /\ arrived[h] = 0
    /\ \E params \in RedirectChoices :
        /\ sentParams' = [sentParams EXCEPT ![h] = Some(params)]
        /\ queue' = [queue EXCEPT ![h] = Append(@, RedirectTarget(params))]
    /\ arrived' = [arrived EXCEPT ![h] = 1]
    /\ UNCHANGED <<sessions, config, loginVars, address, socket, unblockRequested, taskVars,
                   handle, cbVars>>

\* the server kept alive after the closure has ended
ServerLeaked(sock) == sock

\* the closure owns `server` (move ||): when it returns or unwinds, the
\* server is dropped and its socket closed
ServerDropped(sock) == "closed"

\* a value the task keeps only when its handle is being awaited
StoreOutputIfAwaited(value, awaited) == IF awaited THEN Some(value) ELSE None

\* the closure's return value (line 98) is kept for the JoinHandle whether
\* or not anything awaits it yet
StoreOutput(value, awaited) == Some(value)

\* a receive that gives up when nothing is queued, as one with a timeout would
RecvReadyTimeout(q, unblock) ==
    IF q # <<>> THEN "request" ELSE "end"

\* server.incoming_requests().next(): a queued request is taken first; with
\* the queue empty a requested unblock ends the iteration; otherwise the
\* thread waits
RecvReady(q, unblock) ==
    IF q # <<>> THEN "request" ELSE IF unblock THEN "end" ELSE "wait"

\* the head of the for loop; when the iteration ends the closure returns
\* `result` and drops the server, which closes the socket
ListenerRecv(h) ==
    /\ task[h] = "running"
    /\ taskPc[h] = "recv"
    /\ \/ /\ RecvReady(queue[h], unblockRequested[h]) = "request"
          /\ request' = [request EXCEPT ![h] = Some(Head(queue[h]))]
          /\ received' = [received EXCEPT ![h] = Append(@, Head(queue[h]))]
          /\ queue' = [queue EXCEPT ![h] = Tail(@)]
          /\ taskPc' = [taskPc EXCEPT ![h] = "parse"]
          /\ UNCHANGED <<socket, unblockRequested, task, output>>
       \/ /\ RecvReady(queue[h], unblockRequested[h]) = "end"
          /\ unblockRequested' = [unblockRequested EXCEPT ![h] = FALSE]
          /\ output' = [output EXCEPT ![h] = StoreOutput(result[h], cbPc[h] = "await")]
          /\ task' = [task EXCEPT ![h] = "finished"]
          /\ socket' = [socket EXCEPT ![h] = ServerDropped(@)]
          /\ UNCHANGED <<queue, request, received, taskPc>>
    /\ UNCHANGED <<sessions, config, loginVars, address, envVars, result, responses, handle,
                   cbVars>>

\* base.join(request.url()).unwrap(), the query map and the three
\* assignments; a target join rejects panics the task, whose unwinding drops
\* the server
ListenerParse(h) ==
    /\ task[h] = "running"
    /\ taskPc[h] = "parse"
    /\ \E url \in {Join(BaseUrl(Port(h)), Unwrap(request[h]))} :
           IF IsSome(url)
           THEN /\ \E captured \in {Capture(Unwrap(url))} :
                       result' = [result EXCEPT ![h] = captured]
                /\ taskPc' = [taskPc EXCEPT ![h] = "respond"]
                /\ UNCHANGED <<task, socket>>
           ELSE /\ task' = [task EXCEPT ![h] = "panicked"]
                /\ socket' = [socket EXCEPT ![h] = ServerDropped(@)]
                /\ UNCHANGED <<result, taskPc>>
    /\ UNCHANGED <<sessions, config, loginVars, address, queue, unblockRequested, envVars,
                   request, output, received, responses, handle, cbVars>>

\* request.respond(Response::from_string("Success!")).expect(..): a failed
\* write panics the task
ListenerRespond(h, written) ==
    /\ task[h] = "running"
    /\ taskPc[h] = "respond"
    /\ IF written
       THEN /\ responses' = [responses EXCEPT ![h] = Append(@, "Success!")]
            /\ taskPc' = [taskPc EXCEPT ![h] = "unblock"]
            /\ UNCHANGED <<task, socket>>
       ELSE /\ task' = [task EXCEPT ![h] = "panicked"]
            /\ socket' = [socket EXCEPT ![h] = ServerDropped(@)]
            /\ UNCHANGED <<responses, taskPc>>
    /\ request' = [request EXCEPT ![h] = None]
    /\ UNCHANGED <<sessions, config, loginVars, address, queue, unblockRequested, envVars,
                   result, output, received, handle, cbVars>>

\* server.unblock(), then the loop goes back to its head
ListenerUnblock(h) ==
    /\ task[h] = "running"
    /\ taskPc[h] = "unblock"
    /\ unblockRequested' = [unblockRequested EXCEPT ![h] = TRUE]
    /\ taskPc' = [taskPc EXCEPT ![h] = "recv"]
    /\ UNCHANGED <<sessions, config, loginVars, address, socket, queue, envVars, task, request,
                   result, output, received, responses, handle, cbVars>>

\* --------------------------------------------------------------- callback

\* the caller drops the OIDCCallback without calling callback: dropping a
\* JoinHandle detaches the task, which keeps running
DropHandle(h) ==
    /\ handle[h] = "held"
    /\ handle' = [handle EXCEPT ![h] = "dropped"]
    /\ UNCHANGED <<sessions, config, loginVars, serverVars, envVars, taskVars, cbVars>>

\* callback(&self, ..): the caller keeps the OIDCCallback
BorrowedByCallback(state) == state

\* callback(self, ..): the OIDCCallback is moved into the call
MovedIntoCallback(state) == "consumed"

\* polling a JoinHandle: ready once the task has ended, pending before
Poll(state) == IF state \in {"finished", "panicked"} THEN "ready" ELSE "pending"

\* callback(self, client, mount) takes the OIDCCallback by value and awaits
\* the handle
CallbackStart(h, mount) ==
    /\ handle[h] = "held"
    /\ handle' = [handle EXCEPT ![h] = MovedIntoCallback(@)]
    /\ cbMount' = [cbMount EXCEPT ![h] = mount]
    /\ cbPc' = [cbPc EXCEPT ![h] = "await"]
    /\ firstPoll' = [firstPoll EXCEPT ![h] = Poll(task[h])]
    /\ UNCHANGED <<sessions, config, loginVars, serverVars, envVars, taskVars,
                   exchangeCalls, cbResult>>

\* a JoinError replaced by default parameters instead of a failure
JoinResultDefaulted(state, out) ==
    IF state = "finished" THEN out ELSE Some(DefaultParams)

\* self.handle.await: pending while the task runs, the task's value when it
\* has finished, a JoinError (None here) when it has panicked
JoinResult(state, out) == IF state = "finished" THEN out ELSE None

\* the exchange called with code and state in each other's place
ExchangeArgsSwapped(mount, params) ==
    [mount |-> mount, state |-> params.code, nonce |-> params.nonce,
     code |-> params.state]

\* callback(client, mount, result.state, result.nonce, result.code)
ExchangeArgs(mount, params) ==
    [mount |-> mount, state |-> params.state, nonce |-> params.nonce,
     code |-> params.code]

\* the await completes: .unwrap() panics on a JoinError, otherwise the
\* exchange is requested with the captured parameters
CallbackJoin(h) ==
    /\ cbPc[h] = "await"
    /\ task[h] \in {"finished", "panicked"}
    /\ LET joined == JoinResult(task[h], output[h])
       IN  IF IsSome(joined)
           THEN /\ exchangeCalls' = [exchangeCalls EXCEPT
                                       ![h] = Append(@, ExchangeArgs(cbMount[h], Unwrap(joined)))]
                /\ cbPc' = [cbPc EXCEPT ![h] = "exchange"]
           ELSE /\ cbPc' = [cbPc EXCEPT ![h] = "panicked"]
                /\ UNCHANGED exchangeCalls
    /\ UNCHANGED <<sessions, config, loginVars, serverVars, envVars, taskVars, handle,
                   cbMount, cbResult, firstPoll>>

\* the backend answers the exchange; callback returns its answer as it is
ExchangeRespond(h, ok) ==
    /\ cbPc[h] = "exchange"
    /\ cbResult' = [cbResult EXCEPT
                      ![h] = Some(IF ok THEN [ok |-> TRUE, error |-> ""]
                                  ELSE [ok |-> FALSE, error |-> BackendError])]
    /\ cbPc' = [cbPc EXCEPT ![h] = "done"]
    /\ UNCHANGED <<sessions, config, loginVars, serverVars, envVars, taskVars, handle,
                   cbMount, exchangeCalls, firstPoll>>

\* ------------------------------------------------------------ specification

Next ==
    \/ \E h \in Handshakes, mount \in Mounts : LoginStart(h, mount)
    \/ \E h \in Handshakes, ok \in BOOLEAN : AuthRespond(h, ok)
    \/ \E h \in Handshakes, busy \in BOOLEAN : Bind(h, busy)
    \/ \E h \in Handshakes : Spawn(h)
    \/ \E h \in Handshakes : LoginReturn(h)
    \/ \E h \in Handshakes, target \in SampleTargets : RequestArrive(h, target)
    \/ \E h \in Handshakes : ListenerRecv(h)
    \/ \E h \in Handshakes : ListenerParse(h)
    \/ \E h \in Handshakes, written \in BOOLEAN : ListenerRespond(h, written)
    \/ \E h \in Handshakes : ListenerUnblock(h)
    \/ \E h \in Handshakes : DropHandle(h)
    \/ \E h \in Handshakes, mount \in Mounts : CallbackStart(h, mount)
    \/ \E h \in Handshakes : CallbackJoin(h)
    \/ \E h \in Handshakes, ok \in BOOLEAN : ExchangeRespond(h, ok)

Spec == Init /\ [][Next]_vars

\* what runs without the caller or a client acting: login's own steps, the
\* blocking task's steps, a callback whose await can complete, and the
\* backend answering a request it got
ProgramStep ==
    \E h \in Handshakes :
        \/ \E ok \in BOOLEAN : AuthRespond(h, ok)
        \/ \E busy \in BOOLEAN : Bind(h, busy)
        \/ Spawn(h)
        \/ LoginReturn(h)
        \/ ListenerRecv(h)
        \/ ListenerParse(h)
        \/ \E written \in BOOLEAN : ListenerRespond(h, written)
        \/ ListenerUnblock(h)
        \/ CallbackJoin(h)
        \/ \E ok \in BOOLEAN : ExchangeRespond(h, ok)

\* the runtime keeps running whatever of these can run (every one of them
\* moves its thread forward, so none is postponed for ever); callers and
\* clients are free to act or not
Fairness == WF_vars(ProgramStep)

FairSpec == Init /\ [][Next]_vars /\ Fairness

\* the listener on one redirect: handshake 1 with the default configuration
\* has returned from login, its task waits for the first request
ParseInit ==
    /\ sessions = {1}
    /\ config = [h \in Handshakes |-> [port |-> None, role |-> None]]
    /\ loginPc = [h \in Handshakes |-> IF h = 1 THEN "done" ELSE "idle"]
    /\ loginMount = [h \in Handshakes |-> IF h = 1 THEN "oidc" ELSE ""]
    /\ authCalls = [h \in Handshakes |->
                      IF h = 1 THEN <<AuthArgs(1, "oidc")>> ELSE <<>>]
    /\ authResp = [h \in Handshakes |->
                     IF h = 1 THEN Some([ok |-> TRUE, auth_url |-> AuthUrl, error |-> ""])
                     ELSE None]
    /\ loginResult = [h \in Handshakes |->
                        IF h = 1 THEN Some([ok |-> TRUE, url |-> AuthUrl]) ELSE None]
    /\ socket = [h \in Handshakes |-> IF h = 1 THEN "bound" ELSE "none"]
    /\ address = [h \in Handshakes |-> IF h = 1 THEN Some(BindAddress(Port(1))) ELSE None]
    /\ queue = [h \in Handshakes |-> <<>>]
    /\ unblockRequested = [h \in Handshakes |-> FALSE]
    /\ arrived = [h \in Handshakes |-> 0]
    /\ sentParams = [h \in Handshakes |-> None]
    /\ task = [h \in Handshakes |-> IF h = 1 THEN "running" ELSE "none"]
    /\ taskPc = [h \in Handshakes |-> "recv"]
    /\ request = [h \in Handshakes |-> None]
    /\ result = [h \in Handshakes |-> DefaultParams]
    /\ output = [h \in Handshakes |-> None]
    /\ received = [h \in Handshakes |-> <<>>]
    /\ responses = [h \in Handshakes |-> <<>>]
    /\ handle = [h \in Handshakes |-> IF h = 1 THEN "held" ELSE "none"]
    /\ cbPc = [h \in Handshakes |-> "idle"]
    /\ cbMount = [h \in Handshakes |-> ""]
    /\ exchangeCalls = [h \in Handshakes |-> <<>>]
    /\ cbResult = [h \in Handshakes |-> None]
    /\ firstPoll = [h \in Handshakes |-> "none"]

ParseNext ==
    \/ \E h \in Handshakes : RedirectArrive(h)
    \/ \E h \in Handshakes : ListenerRecv(h)
    \/ \E h \in Handshakes : ListenerParse(h)
    \/ \E h \in Handshakes, written \in BOOLEAN : ListenerRespond(h, written)
    \/ \E h \in Handshakes : ListenerUnblock(h)

ParseSpec == ParseInit /\ [][ParseNext]_vars

\* two handshakes at once, on the default port and on port 9000, each with
\* its own mount; the backend answers, the binds find their port free and
\* the responses are written, so that what one handshake does to the other is
\* all that can go wrong
TwoInit ==
    /\ sessions = Handshakes
    /\ config = [h \in Handshakes |->
                   [port |-> IF h = 1 THEN None ELSE Some(9000), role |-> None]]
    /\ Idle

TwoMount(h) == IF h = 1 THEN "oidc" ELSE "okta"

\* what a client sends to either port: the redirect, or a request for
\* another path
TwoTargets ==
    { <<"/oidc/callback", "?", "code", "=", "abc", "&", "state", "=", "xyz",
        "&", "nonce", "=", "123">>,
      <<"/favicon.ico">> }

TwoNext ==
    \/ \E h \in Handshakes : LoginStart(h, TwoMount(h))
    \/ \E h \in Handshakes : AuthRespond(h, TRUE)
    \/ \E h \in Handshakes : Bind(h, FALSE)
    \/ \E h \in Handshakes : Spawn(h)
    \/ \E h \in Handshakes : LoginReturn(h)
    \/ \E h \in Handshakes, target \in TwoTargets : RequestArrive(h, target)
    \/ \E h \in Handshakes : ListenerRecv(h)
    \/ \E h \in Handshakes : ListenerParse(h)
    \/ \E h \in Handshakes : ListenerRespond(h, TRUE)
    \/ \E h \in Handshakes : ListenerUnblock(h)
    \/ \E h \in Handshakes : CallbackStart(h, TwoMount(h))
    \/ \E h \in Handshakes : CallbackJoin(h)
    \/ \E h \in Handshakes : ExchangeRespond(h, TRUE)

TwoSpec == TwoInit /\ [][TwoNext]_vars

\* ------------------------------------------------------------------ claims

\* the parameters the loop body captures from one request target
CapturedFrom(h, target) == Capture(Unwrap(Join(BaseUrl(Port(h)), target)))

\* C1: the CapturedParams a finished listener task yields are those of the
\* first request it received, whatever was sent after it.
C1_FirstRequestWins ==
    \A h \in Handshakes :
        (task[h] = "finished" /\ received[h] # <<>>)
            => output[h] = Some(CapturedFrom(h, received[h][1]))

\* C2: the listener takes at most one request from its queue and answers at
\* most one request, in every state of a handshake.
C2_AtMostOneProcessed ==
    \A h \in Handshakes : Len(received[h]) <= 1 /\ Len(responses[h]) <= 1

\* C3: the exchange is invoked only once the listener task has finished with
\* a captured result, and then with the mount given to callback and the
\* captured state, nonce and code.
C3_ExchangeAfterCapture ==
    \A h \in Handshakes :
        /\ cbPc[h] \in {"exchange", "done"} => Len(exchangeCalls[h]) = 1
        /\ \A i \in 1..Len(exchangeCalls[h]) :
            /\ task[h] = "finished"
            /\ IsSome(output[h])
            /\ exchangeCalls[h][i].mount = cbMount[h]
            /\ exchangeCalls[h][i].state = Unwrap(output[h]).state
            /\ exchangeCalls[h][i].nonce = Unwrap(output[h]).nonce
            /\ exchangeCalls[h][i].code = Unwrap(output[h]).code

\* the exchange was invoked with the redirect's three distinct values
C3_Witness ==
    \E h \in Handshakes :
        /\ Len(exchangeCalls[h]) = 1
        /\ exchangeCalls[h][1].code = <<"abc">>
        /\ exchangeCalls[h][1].state = <<"xyz">>
        /\ exchangeCalls[h][1].nonce = <<"123">>

\* C4: when the authorization-URL request fails, login returns that error, no
\* socket is bound and no listener task has been started.
C4_AuthFailureStartsNothing ==
    \A h \in Handshakes :
        (IsSome(authResp[h]) /\ ~Unwrap(authResp[h]).ok)
            => /\ loginPc[h] = "done"
               /\ loginResult[h] = Some([ok |-> FALSE, error |-> Unwrap(authResp[h]).error])
               /\ socket[h] = "none"
               /\ task[h] = "none"
               /\ handle[h] = "none"

\* login has returned the backend's error
C4_Witness ==
    \E h \in Handshakes :
        /\ IsSome(authResp[h]) /\ ~Unwrap(authResp[h]).ok
        /\ IsSome(loginResult[h]) /\ ~Unwrap(loginResult[h]).ok

\* C5: once the caller has dropped the OIDCCallback without calling callback,
\* the listener's socket is eventually released, also when no request comes.
C5_DroppedHandleReleasesSocket ==
    \A h \in Handshakes : (handle[h] = "dropped") ~> (socket[h] # "bound")

\* C6: when the listener task has panicked, a waiting callback ends in a
\* failure (the panic of its unwrap) and the exchange is never invoked.
C6_TaskPanicFailsCallback ==
    /\ [](\A h \in Handshakes :
            task[h] = "panicked"
                => /\ exchangeCalls[h] = <<>>
                   /\ cbPc[h] \in {"idle", "await", "panicked"}
                   /\ cbResult[h] = None)
    /\ \A h \in Handshakes :
            (task[h] = "panicked" /\ cbPc[h] = "await") ~> (cbPc[h] = "panicked")

\* a callback has failed on a panicked listener task
C6_Witness ==
    \E h \in Handshakes :
        task[h] = "panicked" /\ cbPc[h] = "panicked" /\ exchangeCalls[h] = <<>>

\* the steps login takes by itself once the backend has answered
LoginStep(h) ==
    \/ \E busy \in BOOLEAN : Bind(h, busy)
    \/ Spawn(h)
    \/ LoginReturn(h)

C8_BindFailureIsErrorResult ==
    \A h \in Handshakes :
        (/\ IsSome(authResp[h]) /\ Unwrap(authResp[h]).ok
         /\ loginPc[h] \notin {"auth", "bind"}
         /\ socket[h] = "none")
            => /\ IsSome(loginResult[h]) /\ ~Unwrap(loginResult[h]).ok
               /\ handle[h] = "none"
               /\ task[h] = "none"

\* the names a parameter list holds, and the value it gives a name (its last)
SentNames(pairs) == {pairs[i][1] : i \in 1..Len(pairs)}
SentValue(pairs, name) ==
    LET at == {i \in 1..Len(pairs) : pairs[i][1] = name}
        last == CHOOSE i \in at : \A j \in at : j <= i
    IN  pairs[last][2]

Captured == {<<"code">>, <<"nonce">>, <<"state">>}
Field(params, name) ==
    CASE name = <<"code">>  -> params.code
      [] name = <<"nonce">> -> params.nonce
      [] name = <<"state">> -> params.state

\* the redirect of h carries all of code, nonce and state
SentAll(h) ==
    /\ IsSome(sentParams[h])
    /\ IsSome(Unwrap(sentParams[h]))
    /\ Captured \subseteq SentNames(Unwrap(Unwrap(sentParams[h])))

\* the loop body has made its three assignments for the redirect
HasCaptured(h) == received[h] # <<>> /\ taskPc[h] # "parse"

\* C9: for a redirect whose query holds code, nonce and state, the captured
\* result has exactly the three values the sender gave them, whatever other
\* parameters the query holds and in whatever order.
C9_CapturesSentValues ==
    \A h \in Handshakes :
        SentAll(h) =>
            /\ HasCaptured(h) =>
                 \A name \in Captured :
                    Field(result[h], name) = SentValue(Unwrap(Unwrap(sentParams[h])), name)
            /\ task[h] = "finished" => output[h] = Some(result[h])

\* a finished capture of four parameters, state first, one of them unrelated,
\* with a code that needs decoding
C9_Witness ==
    \E h \in Handshakes :
        /\ SentAll(h)
        /\ task[h] = "finished"
        /\ LET pairs == Unwrap(Unwrap(sentParams[h]))
           IN  /\ Len(pairs) = 4
               /\ pairs[1][1] = <<"state">>
               /\ <<"session_state">> \in SentNames(pairs)
        /\ Unwrap(output[h]).code = <<"x", " ", "=", "&">>
        /\ Unwrap(output[h]).nonce = <<"abc">>

\* C10: for a redirect lacking some of code, nonce, state (or any query), the
\* request is parsed without failure, each missing field is the empty string
\* and each present field has the value sent.
C10_MissingDefaultsToEmpty ==
    \A h \in Handshakes :
        (IsSome(sentParams[h]) /\ ~SentAll(h)) =>
            LET sent == IF IsSome(Unwrap(sentParams[h]))
                        THEN Unwrap(Unwrap(sentParams[h])) ELSE <<>>
            IN  /\ task[h] = "panicked" => request[h] = None
                /\ HasCaptured(h) =>
                     \A name \in Captured :
                        Field(result[h], name) =
                            IF name \in SentNames(sent) THEN SentValue(sent, name)
                            ELSE <<>>
                /\ task[h] = "finished" => output[h] = Some(result[h])

\* the redirect carried only state: code and nonce are empty
C10_Witness ==
    \E h \in Handshakes :
        /\ sentParams[h] = Some(Some(<< <<(<<"state">>), (<<"abc">>)>> >>))
        /\ task[h] = "finished"
        /\ output[h] = Some([code |-> <<>>, nonce |-> <<>>, state |-> <<"abc">>])

\* C11: the exchange is invoked at most once per handshake: a failed exchange
\* is callback's result as the backend gave it, with no second invocation,
\* and a handle given to callback cannot be given to callback again.
C11_ExchangeAtMostOnce ==
    \A h \in Handshakes :
        /\ Len(exchangeCalls[h]) <= 1
        /\ (IsSome(cbResult[h]) /\ ~Unwrap(cbResult[h]).ok)
               => /\ Unwrap(cbResult[h]).error = BackendError
                  /\ cbPc[h] = "done"
                  /\ Len(exchangeCalls[h]) = 1
        /\ cbPc[h] # "idle"
               => /\ handle[h] = "consumed"
                  /\ ~ENABLED (\E mount \in Mounts : CallbackStart(h, mount))

\* callback has returned the backend's error after its one exchange
C11_Witness ==
    \E h \in Handshakes :
        /\ cbPc[h] = "done"
        /\ IsSome(cbResult[h]) /\ ~Unwrap(cbResult[h]).ok
        /\ Len(exchangeCalls[h]) = 1

\* C12: a listener task that has ended, by returning or by panicking, has
\* released its socket; while it runs the socket stays bound, and only the
\* task's own end changes it.
C12_SocketReleasedWithTask ==
    /\ [](\A h \in Handshakes :
            /\ task[h] \in {"finished", "panicked"} => socket[h] = "closed"
            /\ task[h] = "running" => socket[h] = "bound")
    /\ [][\A h \in Handshakes :
            (task[h] = "running" /\ socket'[h] # socket[h])
                => task'[h] \in {"finished", "panicked"}]_vars

\* a listener task has panicked and its socket is closed
C12_Witness ==
    \E h \in Handshakes : task[h] = "panicked" /\ socket[h] = "closed"

\* C13: once the listener has answered its first request, its task eventually
\* finishes with the captured parameters, whatever else is sent, and a
\* callback waiting on it eventually reaches the exchange.
C13_AnsweredListenerFinishes ==
    \A h \in Handshakes :
        /\ (Len(responses[h]) >= 1) ~> (task[h] = "finished" /\ IsSome(output[h]))
        /\ (Len(responses[h]) >= 1 /\ cbPc[h] = "await")
               ~> (cbPc[h] \in {"exchange", "done"})

\* C14: no request makes the listener task fail: whatever target a request
\* has and whether or not its response can be written, the task does not
\* panic.
C14_NoRequestCrashesListener ==
    \A h \in Handshakes : task[h] # "panicked"

\* C16: with p the configured port, or 8250 when none is configured, the
\* authorization URL is requested with redirect http://localhost:p/oidc/callback
\* and the configured role, and the listener is bound to 127.0.0.1:p.
C16_RedirectPortIsBoundPort ==
    \A h \in Handshakes :
        LET p == IF config[h].port = None THEN 8250 ELSE config[h].port[1]
        IN  /\ \A i \in 1..Len(authCalls[h]) :
                 authCalls[h][i] =
                     [mount |-> loginMount[h],
                      redirect |-> [scheme |-> "http", host |-> "localhost", port |-> p,
                                    path |-> "/oidc/callback", query |-> None],
                      role |-> config[h].role]
            /\ socket[h] # "none" => IsSome(address[h])
            /\ IsSome(address[h])
                   => /\ address[h] = Some([ip |-> "127.0.0.1", port |-> p])
                      /\ Len(authCalls[h]) = 1
                      /\ authCalls[h][1].redirect.port = Unwrap(address[h]).port

\* a listener is bound for a login configured with port 9000 and a role
C16_Witness ==
    \E h \in Handshakes :
        /\ config[h] = [port |-> Some(9000), role |-> Some("admin")]
        /\ socket[h] = "bound"
        /\ Len(authCalls[h]) = 1

\* everything one handshake owns
HandshakeState(h) ==
    <<loginPc[h], loginMount[h], authCalls[h], authResp[h], loginResult[h],
      socket[h], address[h], queue[h], unblockRequested[h], arrived[h],
      sentParams[h], task[h], taskPc[h], request[h], result[h], output[h],
      received[h], responses[h], handle[h], cbPc[h], cbMount[h],
      exchangeCalls[h], cbResult[h], firstPoll[h]>>

\* C15: two handshakes on distinct ports do not touch each other: neither
\* keeps the other from binding, every step (a request delivered to one port
\* among them) changes one handshake only, a finished listener yields what it
\* captured from its own requests, and each callback passes the exchange the
\* triple its own listener yielded.
C15_HandshakesIndependent ==
    /\ [](\A h \in Handshakes :
            /\ loginPc[h] # "panicked"
            /\ (task[h] = "finished" /\ received[h] # <<>>)
                   => output[h] = Some(CapturedFrom(h, received[h][Len(received[h])]))
            /\ \A i \in 1..Len(exchangeCalls[h]) :
                   /\ IsSome(output[h])
                   /\ exchangeCalls[h][i].mount = TwoMount(h)
                   /\ exchangeCalls[h][i].state = Unwrap(output[h]).state
                   /\ exchangeCalls[h][i].nonce = Unwrap(output[h]).nonce
                   /\ exchangeCalls[h][i].code = Unwrap(output[h]).code)
    /\ [][\A h \in Handshakes, g \in Handshakes :
            (h # g /\ HandshakeState(h)' # HandshakeState(h))
                => HandshakeState(g)' = HandshakeState(g)]_vars

\* both callbacks have invoked the exchange, each with the triple of the
\* request sent to its own port
C15_Witness ==
    /\ Len(exchangeCalls[1]) = 1
    /\ Len(exchangeCalls[2]) = 1
    /\ exchangeCalls[1][1].code = <<"abc">>
    /\ exchangeCalls[1][1].state = <<"xyz">>
    /\ exchangeCalls[2][1].code = <<>>
    /\ exchangeCalls[2][1].state = <<>>
    /\ received[1] # received[2]

\* C17: callback has no timeout of its own: while no request has reached the
\* listener the await cannot complete, so callback has not gone past it, has
\* invoked no exchange and has returned nothing; a callback past its await
\* had a request received by the listener or a failed listener task.
C17_CallbackHasNoTimeout ==
    \A h \in Handshakes :
        /\ arrived[h] = 0
               => /\ cbPc[h] \in {"idle", "await"}
                  /\ exchangeCalls[h] = <<>>
                  /\ cbResult[h] = None
                  /\ task[h] # "finished"
                  /\ ~ENABLED CallbackJoin(h)
        /\ cbPc[h] \in {"exchange", "done", "panicked"}
               => received[h] # <<>> \/ task[h] = "panicked"

\* callback suspended on the handle of a running listener that no request
\* has reached
C17_Witness ==
    \E h \in Handshakes :
        /\ cbPc[h] = "await"
        /\ task[h] = "running"
        /\ taskPc[h] = "recv"
        /\ arrived[h] = 0

\* C18: the listener does not look at the path: a first request at a path
\* other than /oidc/callback is answered with the success page, and every
\* exchange the callback then invokes carries the state, nonce and code
\* captured from that first request (empty where it has none).
C18_AnyPathFirstRequestExchanged ==
    \A h \in Handshakes :
        (received[h] # <<>> /\ received[h][1][1] # "/oidc/callback")
            => /\ \A i \in 1..Len(responses[h]) : responses[h][i] = "Success!"
               /\ \A i \in 1..Len(exchangeCalls[h]) :
                    ExchangeArgs(cbMount[h], CapturedFrom(h, received[h][1]))
                        = exchangeCalls[h][i]

\* C19: the task's value waits for the callback: a finished listener holds
\* the parameters of the last request it processed and keeps them, whether
\* the callback's first poll finds the task still running or already
\* finished; a callback awaiting a finished task can go on, and every
\* exchange it invokes carries exactly the parameters the task yielded.
C19_HandoffLosesNothing ==
    /\ [](\A h \in Handshakes :
            /\ task[h] = "finished"
                   => /\ received[h] # <<>>
                      /\ output[h] = Some(CapturedFrom(h, received[h][Len(received[h])]))
            /\ (cbPc[h] = "await" /\ task[h] = "finished")
                   => ENABLED CallbackJoin(h)
            /\ (cbPc[h] \in {"exchange", "done"} /\ firstPoll[h] \in {"ready", "pending"})
                   => /\ task[h] = "finished"
                      /\ exchangeCalls[h]
                             = <<ExchangeArgs(cbMount[h],
                                              CapturedFrom(h, received[h][Len(received[h])]))>>)
    /\ [][\A h \in Handshakes :
            task[h] = "finished"
                => task'[h] = "finished" /\ output'[h] = output[h]]_vars

\* the redirect arrived and the listener finished before callback was
\* invoked: its first poll found the task ended, and the exchange was invoked
\* with the redirect's triple
C19_Witness ==
    \E h \in Handshakes :
        /\ firstPoll[h] = "ready"
        /\ task[h] = "finished"
        /\ Len(received[h]) = 1
        /\ Len(exchangeCalls[h]) = 1
        /\ exchangeCalls[h][1].code = <<"abc">>
        /\ exchangeCalls[h][1].state = <<"xyz">>
        /\ exchangeCalls[h][1].nonce = <<"123">>

\* the same exchange when callback was already suspended as the redirect
\* arrived
C19_WitnessSuspended ==
    \E h \in Handshakes :
        /\ firstPoll[h] = "pending"
        /\ Len(received[h]) = 1
        /\ Len(exchangeCalls[h]) = 1
        /\ exchangeCalls[h][1].code = <<"abc">>
        /\ exchangeCalls[h][1].state = <<"xyz">>
        /\ exchangeCalls[h][1].nonce = <<"123">>

====
